---- MODULE Spec2Model ----
(***************************************************************************)
(* Model of the entry aggregation and organisation code of                 *)
(* social-listening: deduplicateEntries / handleSyncComplete /             *)
(* fetchOgDataForEntries (src/app/page.tsx) and findCrossPostDescriptions, *)
(* the tag filter, categorizeEntriesFromSource, groupCommentsUnderArticles *)
(* and handleAction (components/FeedEntries.tsx).                          *)
(* Further sections model the loading of the stored tag filters           *)
(* (src/app/page.tsx), the status map (utils/entryState.ts), the           *)
(* environment config cache (fetchEnvConfig) and the rate limiter          *)
(* (utils/rateLimit.ts).                                                   *)
(*                                                                         *)
(* Strings are sequences of tokens: a URL is its sequence of path          *)
(* segments, a text is its sequence of words, " " is white space.          *)
(* A date string is a number: 0 is the missing date (""), BadDate is a     *)
(* string Date cannot parse, a positive number is a date with that         *)
(* timestamp.  An optional value is a sequence of length 0 or 1.           *)
(***************************************************************************)
EXTENDS Integers, Sequences, FiniteSets, TLC

VARIABLES
    input,                  \* argument of the function under test
    output,                 \* its result
    pc,                     \* "ready" | "done" for the function under test
    entries,                \* Home: useState entries
    stored,                 \* localStorage 'social-listening-entries'
    states,                 \* localStorage 'social-listening-entry-states'
    tagFilters,             \* Home: useState tagFilters
    crossPostDescriptions,  \* FeedEntries: useMemo over entries
    filteredEntries,        \* FeedEntries: useMemo over entries, tagFilters, ...
    categorized,            \* FeedEntries: useState categorized (displayed)
    runs,                   \* fetchOgDataForEntries invocations in flight
    syncCount               \* number of handleSyncComplete calls so far

vars == <<input, output, pc, entries, stored, states, tagFilters,
          crossPostDescriptions, filteredEntries, categorized, runs, syncCount>>

pureVars == <<input, output, pc>>
sysVars == <<entries, stored, states, tagFilters, crossPostDescriptions,
             filteredEntries, categorized, runs, syncCount>>

----------------------------------------------------------------------------
(* Bounds *)

MaxThreadLen == 4
MaxDedupLen == 3
MaxCrossLen == 2
MaxSyncs == 2
MaxHidden == 1

----------------------------------------------------------------------------
(* Values *)

BadDate == -1
NaN == -1
NegInfinity == -2

None == <<>>
Some(v) == <<v>>

Range(s) == { s[i] : i \in 1..Len(s) }

\* String.prototype.includes on token sequences
Includes(s, pat) ==
    \E i \in 0..(Len(s) - Len(pat)) :
        \A j \in 1..Len(pat) : s[i + j] = pat[j]

----------------------------------------------------------------------------
(* Reddit URL helpers *)

AlphaNum(seg) == seg \notin {"", " ", "-"}

isRedditComment(url) ==
    /\ url # <<>>
    /\ Includes(url, <<"reddit.com">>)
    /\ \E i \in 2..(Len(url) - 1) : url[i] = "c"

\* first /comments/ID match; None when there is none
getRedditArticleId(url) ==
    LET hits == { i \in 1..(Len(url) - 1) :
                      url[i] = "comments" /\ AlphaNum(url[i + 1]) }
    IN  IF url = <<>> \/ hits = {} THEN None
        ELSE LET k == CHOOSE i \in hits : \A j \in hits : i <= j
             IN  Some(url[k + 1])

\* greedy (.*\/comments\/ID\/): up to the last /comments/ID/ that is followed by a slash
getRedditArticleUrl(url) ==
    LET hits == { i \in 1..(Len(url) - 2) :
                      url[i] = "comments" /\ AlphaNum(url[i + 1]) }
    IN  IF url = <<>> \/ hits = {} THEN None
        ELSE LET k == CHOOSE i \in hits : \A j \in hits : i >= j
             IN  Some(SubSeq(url, 1, k + 1))

\* link.replace(/\/c\/.*$/, '/')
StripComment(url) ==
    LET hits == { i \in 1..(Len(url) - 1) : url[i] = "c" }
    IN  IF hits = {} THEN url
        ELSE LET k == CHOOSE i \in hits : \A j \in hits : i <= j
             IN  SubSeq(url, 1, k - 1)

----------------------------------------------------------------------------
(* Entries *)

NewEntry(id, link, date, desc, feedId, feedTitle) ==
    [ id |-> id, link |-> link, publishedDate |-> date,
      lastCommentTime |-> 0, title |-> <<>>, description |-> desc,
      og |-> None, ogLoading |-> TRUE, feedId |-> feedId,
      feedTitle |-> feedTitle,
      isCommentThread |-> FALSE, isDummyParent |-> FALSE ]

\* new Date(s).getTime()
DateGetTime(s) == IF s = BadDate THEN NaN ELSE s

getEntryDate(entry) ==
    LET dateString == IF entry.lastCommentTime # 0
                      THEN entry.lastCommentTime ELSE entry.publishedDate
        date == IF dateString # 0 THEN DateGetTime(dateString) ELSE 0
    IN  IF date # NaN THEN date ELSE 0

----------------------------------------------------------------------------
(* Array.prototype.sort((a, b) => key(b) - key(a)): stable, descending *)

InsertDesc(t, e, Key(_)) ==
    LET p == Cardinality({ j \in 1..Len(t) : Key(t[j]) >= Key(e) })
    IN  SubSeq(t, 1, p) \o <<e>> \o SubSeq(t, p + 1, Len(t))

SortDesc(s, Key(_)) ==
    LET f[i \in 0..Len(s)] ==
            IF i = 0 THEN <<>> ELSE InsertDesc(f[i - 1], s[i], Key)
    IN  f[Len(s)]

sortByDate(es) == SortDesc(es, getEntryDate)

----------------------------------------------------------------------------
(* groupCommentsUnderArticles *)

IsCommentEntry(e) ==
    getRedditArticleId(e.link) # None /\ isRedditComment(e.link)

\* first pass: entries pushed to nonCommentEntries, in input order
NonCommentEntries(es) == SelectSeq(es, LAMBDA e : ~IsCommentEntry(e))

\* first pass: keys of commentsByArticleId in Map insertion order
RECURSIVE CommentKeys(_)
CommentKeys(es) ==
    IF es = <<>> THEN <<>>
    ELSE LET rest == CommentKeys(SubSeq(es, 1, Len(es) - 1))
             e == es[Len(es)]
         IN  IF IsCommentEntry(e) /\ getRedditArticleId(e.link)[1] \notin Range(rest)
             THEN Append(rest, getRedditArticleId(e.link)[1])
             ELSE rest

\* CommentsOf with the comparator reversed: oldest comment first
CommentsOfOldestFirst(es, articleId) ==
    LET s == SortDesc(SelectSeq(es, LAMBDA e :
                          IsCommentEntry(e) /\ getRedditArticleId(e.link) = Some(articleId)),
                      getEntryDate)
    IN  [ i \in 1..Len(s) |-> s[Len(s) + 1 - i] ]

\* commentsByArticleId.get(articleId), after the per-group sort
CommentsOf(es, articleId) ==
    SortDesc(SelectSeq(es, LAMBDA e :
                 IsCommentEntry(e) /\ getRedditArticleId(e.link) = Some(articleId)),
             getEntryDate)

MarkThread(cs) == [ i \in 1..Len(cs) |-> [cs[i] EXCEPT !.isCommentThread = TRUE] ]

\* PrimaryEmission pushing an article's comments before the article
RECURSIVE PrimaryEmissionRepliesFirst(_, _)
PrimaryEmissionRepliesFirst(roots, es) ==
    IF roots = <<>> THEN <<>>
    ELSE LET entry == Head(roots)
             articleId == getRedditArticleId(entry.link)
             block == IF articleId = None THEN <<entry>>
                      ELSE MarkThread(CommentsOf(es, articleId[1])) \o <<entry>>
         IN  block \o PrimaryEmissionRepliesFirst(Tail(roots), es)

\* the loop over the sorted nonCommentEntries: article, then its comments
RECURSIVE PrimaryEmission(_, _)
PrimaryEmission(roots, es) ==
    IF roots = <<>> THEN <<>>
    ELSE LET entry == Head(roots)
             articleId == getRedditArticleId(entry.link)
             block == IF articleId = None THEN <<entry>>
                      ELSE <<entry>> \o MarkThread(CommentsOf(es, articleId[1]))
         IN  block \o PrimaryEmission(Tail(roots), es)

ProcessedArticleIds(roots) ==
    { getRedditArticleId(roots[i].link)[1] :
        i \in { j \in 1..Len(roots) : getRedditArticleId(roots[j].link) # None } }

NumStr(n) ==
    CASE n = 1 -> "1" [] n = 2 -> "2" [] n = 3 -> "3" [] n = 4 -> "4"
      [] n = 5 -> "5" [] OTHER -> "many"

\* dummyParent dated by the last (oldest) comment of the group
dummyParentOldestDate(articleId, comments, listName) ==
    LET firstComment == comments[1]
        articleUrl == getRedditArticleUrl(firstComment.link)
    IN  [ id |-> <<"dummy-article", articleId>>,
          link |-> IF articleUrl # None THEN articleUrl[1]
                   ELSE StripComment(firstComment.link),
          publishedDate |-> comments[Len(comments)].publishedDate,
          lastCommentTime |-> 0,
          title |-> <<"Reddit Thread", NumStr(Len(comments)),
                      IF Len(comments) > 1 THEN "comments" ELSE "comment">>,
          description |-> <<"Parent article not in", listName, "list">>,
          og |-> None, ogLoading |-> FALSE,
          feedId |-> firstComment.feedId, feedTitle |-> firstComment.feedTitle,
          isCommentThread |-> FALSE, isDummyParent |-> TRUE ]

dummyParent(articleId, comments, listName) ==
    LET firstComment == comments[1]
        articleUrl == getRedditArticleUrl(firstComment.link)
    IN  [ id |-> <<"dummy-article", articleId>>,
          link |-> IF articleUrl # None THEN articleUrl[1]
                   ELSE StripComment(firstComment.link),
          publishedDate |-> firstComment.publishedDate,
          lastCommentTime |-> 0,
          title |-> <<"Reddit Thread", NumStr(Len(comments)),
                      IF Len(comments) > 1 THEN "comments" ELSE "comment">>,
          description |-> <<"Parent article not in", listName, "list">>,
          og |-> None, ogLoading |-> FALSE,
          feedId |-> firstComment.feedId, feedTitle |-> firstComment.feedTitle,
          isCommentThread |-> FALSE, isDummyParent |-> TRUE ]

OrphanGroupDate(g) == g.newestDate

\* orphanGroups without the processedArticleIds test
orphanGroupsAll(es, processed) ==
    LET keys == CommentKeys(es)
        groups == [ i \in 1..Len(keys) |->
                      [ articleId |-> keys[i],
                        comments |-> CommentsOf(es, keys[i]),
                        newestDate |-> getEntryDate(CommentsOf(es, keys[i])[1]) ] ]
    IN  SortDesc(groups, OrphanGroupDate)

orphanGroups(es, processed) ==
    LET keys == SelectSeq(CommentKeys(es), LAMBDA a : a \notin processed)
        groups == [ i \in 1..Len(keys) |->
                      [ articleId |-> keys[i],
                        comments |-> CommentsOf(es, keys[i]),
                        newestDate |-> getEntryDate(CommentsOf(es, keys[i])[1]) ] ]
    IN  SortDesc(groups, OrphanGroupDate)

\* the while loop merging result and orphanGroups
RECURSIVE MergeOrphans(_, _, _, _, _)
MergeOrphans(result, groups, resultIndex, orphanIndex, listName) ==
    IF ~(resultIndex <= Len(result) \/ orphanIndex <= Len(groups)) THEN <<>>
    ELSE LET nextResultDate == IF resultIndex <= Len(result)
                               THEN getEntryDate(result[resultIndex]) ELSE NegInfinity
             nextOrphanDate == IF orphanIndex <= Len(groups)
                               THEN groups[orphanIndex].newestDate ELSE NegInfinity
         IN  IF nextOrphanDate > nextResultDate /\ orphanIndex <= Len(groups)
             THEN LET g == groups[orphanIndex]
                  IN  <<dummyParent(g.articleId, g.comments, listName)>>
                        \o MarkThread(g.comments)
                        \o MergeOrphans(result, groups, resultIndex, orphanIndex + 1, listName)
             ELSE IF resultIndex <= Len(result)
             THEN <<result[resultIndex]>>
                    \o MergeOrphans(result, groups, resultIndex + 1, orphanIndex, listName)
             ELSE <<>>

groupCommentsUnderArticles(es, listName) ==
    LET nonCommentEntries == SortDesc(NonCommentEntries(es), getEntryDate)
        result == PrimaryEmission(nonCommentEntries, es)
        groups == orphanGroups(es, ProcessedArticleIds(nonCommentEntries))
    IN  IF Len(groups) > 0
        THEN MergeOrphans(result, groups, 1, 1, listName)
        ELSE result

sortWithGrouping(es, listName) ==
    groupCommentsUnderArticles(sortByDate(es), listName)

----------------------------------------------------------------------------
(* deduplicateEntries *)

\* a > b on numbers that may be NaN
NumGt(a, b) == a # NaN /\ b # NaN /\ a > b

\* new Date(publishedDate || 0).getTime()
DedupDate(e) == DateGetTime(IF e.publishedDate # 0 THEN e.publishedDate ELSE 0)

IndexOfLink(urlMap, url) ==
    IF \E i \in 1..Len(urlMap) : urlMap[i].link = url
    THEN CHOOSE i \in 1..Len(urlMap) : urlMap[i].link = url
    ELSE 0

\* DedupStep without the link-less skip: entries without a URL are kept as they are
DedupStepKeepLinkless(urlMap, entry) ==
    LET k == IndexOfLink(urlMap, entry.link)
    IN  IF entry.link = <<>> \/ k = 0 THEN Append(urlMap, entry)
        ELSE IF NumGt(DedupDate(entry), DedupDate(urlMap[k]))
        THEN [urlMap EXCEPT ![k] = entry]
        ELSE urlMap

\* DedupStep collecting new links in front of the list instead of behind it
DedupStepPrepend(urlMap, entry) ==
    LET k == IndexOfLink(urlMap, entry.link)
    IN  IF entry.link = <<>> THEN urlMap
        ELSE IF k = 0 THEN <<entry>> \o urlMap
        ELSE IF NumGt(DedupDate(entry), DedupDate(urlMap[k]))
        THEN [urlMap EXCEPT ![k] =
                [entry EXCEPT
                   !.og = IF entry.og # None THEN entry.og ELSE urlMap[k].og,
                   !.ogLoading = IF entry.og # None THEN FALSE
                                 ELSE urlMap[k].ogLoading]]
        ELSE urlMap

\* one iteration of the loop; urlMap is the Map's values in insertion order
DedupStep(urlMap, entry) ==
    LET url == entry.link
        k == IndexOfLink(urlMap, url)
    IN  IF url = <<>> THEN urlMap
        ELSE IF k = 0 THEN Append(urlMap, entry)
        ELSE LET existing == urlMap[k]
                 existingDate == DedupDate(existing)
                 newDate == DedupDate(entry)
             IN  IF NumGt(newDate, existingDate)
                 THEN [urlMap EXCEPT ![k] =
                         [entry EXCEPT
                            !.og = IF entry.og # None THEN entry.og ELSE existing.og,
                            !.ogLoading = IF entry.og # None THEN FALSE
                                          ELSE existing.ogLoading]]
                 ELSE urlMap

deduplicateEntries(es) ==
    LET f[i \in 0..Len(es)] ==
            IF i = 0 THEN <<>> ELSE DedupStep(f[i - 1], es[i])
    IN  f[Len(es)]

----------------------------------------------------------------------------
(* Text helpers and findCrossPostDescriptions *)

\* String.prototype.toLowerCase, token by token
LowerToken(t) ==
    CASE t = "X" -> "x"
      [] t = "Y" -> "y"
      [] t = "KW" -> "kw"
      [] t = "[REMOVED]" -> "[removed]"
      [] t = "INTEREST" -> "interest"
      [] OTHER -> t

toLowerCase(s) == [ i \in 1..Len(s) |-> LowerToken(s[i]) ]

\* String.prototype.trim
trim(s) ==
    LET keep == { i \in 1..Len(s) : s[i] # " " }
    IN  IF keep = {} THEN <<>>
        ELSE SubSeq(s, CHOOSE i \in keep : \A j \in keep : i <= j,
                       CHOOSE i \in keep : \A j \in keep : i >= j)

\* "kw" stands for the phrase 'keyword was found in'
CROSS_POST_EXCEPTION_PATTERNS ==
    { <<"kw">>, <<"kw", " ", "submission title">>, <<"kw", " ", "comment">> }

isCrossPostException(description) ==
    \E pattern \in CROSS_POST_EXCEPTION_PATTERNS :
        Includes(toLowerCase(description), pattern)

\* entry.og?.ogDescription || entry.description || ''
DisplayDescription(entry) ==
    IF entry.og # None /\ entry.og[1].ogDescription # <<>>
    THEN entry.og[1].ogDescription
    ELSE entry.description

\* entry.og?.ogTitle || entry.title || ''
DisplayTitle(entry) ==
    IF entry.og # None /\ entry.og[1].ogTitle # <<>>
    THEN entry.og[1].ogTitle
    ELSE entry.title

getEntryDescription(entry) == toLowerCase(trim(DisplayDescription(entry)))

IndexOfDescription(m, description) ==
    IF \E i \in 1..Len(m) : m[i].description = description
    THEN CHOOSE i \in 1..Len(m) : m[i].description = description
    ELSE 0

\* CrossPostStep counting the entries of a description instead of its distinct URLs
CrossPostStepCountEntries(m, entry) ==
    LET description == toLowerCase(trim(DisplayDescription(entry)))
        k == IndexOfDescription(m, description)
    IN  IF description = <<>> \/ isCrossPostException(description) THEN m
        ELSE IF k = 0
        THEN Append(m, [description |-> description, urls |-> { <<1, entry.link>> }])
        ELSE [m EXCEPT ![k].urls = @ \cup { <<Cardinality(@) + 1, entry.link>> }]

\* one iteration of the loop over entries; m is descriptionToUrls
CrossPostStep(m, entry) ==
    LET description == toLowerCase(trim(DisplayDescription(entry)))
        k == IndexOfDescription(m, description)
        added == IF entry.link # <<>> THEN { entry.link } ELSE {}
    IN  IF description = <<>> THEN m
        ELSE IF isCrossPostException(description) THEN m
        ELSE IF k = 0
        THEN Append(m, [description |-> description, urls |-> added])
        ELSE [m EXCEPT ![k].urls = @ \cup added]

findCrossPostDescriptions(es) ==
    LET f[i \in 0..Len(es)] ==
            IF i = 0 THEN <<>> ELSE CrossPostStep(f[i - 1], es[i])
        descriptionToUrls == f[Len(es)]
    IN  { descriptionToUrls[i].description :
            i \in { j \in 1..Len(descriptionToUrls) :
                      Cardinality(descriptionToUrls[j].urls) > 1 } }

\* crossPostDescriptions.has(displayDescription.trim().toLowerCase())
isCrossPost(entry, crossPosts) ==
    toLowerCase(trim(DisplayDescription(entry))) \in crossPosts

----------------------------------------------------------------------------
(* entryState.ts: the status map; Absent is a key the stored object lacks *)

Absent == "absent"

getEntryStatus(st, entryId) ==
    IF entryId \in DOMAIN st /\ st[entryId] # Absent THEN st[entryId] ELSE "to_process"

\* setEntryStatus that stores 'to_process' instead of deleting the key
setEntryStatusStoreAll(st, entryId, status) == [st EXCEPT ![entryId] = status]

setEntryStatus(st, entryId, status) ==
    IF status = "to_process"
    THEN [st EXCEPT ![entryId] = Absent]
    ELSE [st EXCEPT ![entryId] = status]

markAsProcessed(st, entryId) == setEntryStatus(st, entryId, "processed")
markAsIgnored(st, entryId) == setEntryStatus(st, entryId, "ignored")
restoreEntry(st, entryId) == setEntryStatus(st, entryId, "to_process")

----------------------------------------------------------------------------
(* tagFilter.ts and the filteredEntries memo of FeedEntries *)

StaticTags ==
    { "comment", "crossPost", "deleted", "mentionsInterest", "github",
      "statusToProcess", "statusDone", "statusIgnored" }

FeedTitles == { "Feed" }

Unset == "unset"

toggleFilterState(current) == IF current = "shown" THEN "hidden" ELSE "shown"

\* filters.feeds[feedTitle] ?? 'shown'
getFeedFilterState(filters, feedTitle) ==
    IF feedTitle \in DOMAIN filters.feeds /\ filters.feeds[feedTitle] # Unset
    THEN filters.feeds[feedTitle]
    ELSE "shown"

\* useState('Darryn Campbell')
interest == <<"INTEREST">>

\* KeepEntry without the github line
KeepEntryWithoutGithub(entry, filters, crossPosts, st) ==
    LET displayTitle == DisplayTitle(entry)
        displayDescription == DisplayDescription(entry)
        interestLower == toLowerCase(interest)
        isComment == isRedditComment(entry.link)
        isCrossPostTag == toLowerCase(trim(displayDescription)) \in crossPosts
        isDeleted == Includes(toLowerCase(displayDescription), <<"[removed]">>)
        mentionsInterest ==
            \/ Includes(toLowerCase(displayTitle), interestLower)
            \/ Includes(toLowerCase(displayDescription), interestLower)
        status == getEntryStatus(st, entry.id)
    IN  ~ \/ filters.comment = "hidden" /\ isComment
          \/ filters.crossPost = "hidden" /\ isCrossPostTag
          \/ filters.deleted = "hidden" /\ isDeleted
          \/ filters.mentionsInterest = "hidden" /\ mentionsInterest
          \/ filters.statusToProcess = "hidden" /\ status = "to_process"
          \/ filters.statusDone = "hidden" /\ status = "processed"
          \/ filters.statusIgnored = "hidden" /\ status = "ignored"
          \/ entry.feedTitle # "" /\ getFeedFilterState(filters, entry.feedTitle) = "hidden"

\* the callback of entries.filter: TRUE when the entry is kept
KeepEntry(entry, filters, crossPosts, st) ==
    LET displayTitle == DisplayTitle(entry)
        displayDescription == DisplayDescription(entry)
        interestLower == toLowerCase(interest)
        isComment == isRedditComment(entry.link)
        isCrossPostTag == toLowerCase(trim(displayDescription)) \in crossPosts
        isDeleted == Includes(toLowerCase(displayDescription), <<"[removed]">>)
        mentionsInterest ==
            \/ Includes(toLowerCase(displayTitle), interestLower)
            \/ Includes(toLowerCase(displayDescription), interestLower)
        isGitHub == Includes(entry.link, <<"github.com", "livekit">>)
        status == getEntryStatus(st, entry.id)
    IN  ~ \/ filters.comment = "hidden" /\ isComment
          \/ filters.crossPost = "hidden" /\ isCrossPostTag
          \/ filters.deleted = "hidden" /\ isDeleted
          \/ filters.mentionsInterest = "hidden" /\ mentionsInterest
          \/ filters.github = "hidden" /\ isGitHub
          \/ filters.statusToProcess = "hidden" /\ status = "to_process"
          \/ filters.statusDone = "hidden" /\ status = "processed"
          \/ filters.statusIgnored = "hidden" /\ status = "ignored"
          \/ entry.feedTitle # "" /\ getFeedFilterState(filters, entry.feedTitle) = "hidden"

\* FilterEntries whose fast path returns the entries sorted by date
FilterEntriesSortedFastPath(ents, filters, crossPosts, st) ==
    LET hasStaticFilter == \E tag \in StaticTags : filters[tag] = "hidden"
        hasFeedFilter == \E t \in DOMAIN filters.feeds : filters.feeds[t] = "hidden"
    IN  IF ~hasStaticFilter /\ ~hasFeedFilter THEN sortByDate(ents)
        ELSE SelectSeq(ents, LAMBDA e : KeepEntry(e, filters, crossPosts, st))

FilterEntries(ents, filters, crossPosts, st) ==
    LET hasStaticFilter == \E tag \in StaticTags : filters[tag] = "hidden"
        hasFeedFilter == \E t \in DOMAIN filters.feeds : filters.feeds[t] = "hidden"
    IN  IF ~hasStaticFilter /\ ~hasFeedFilter THEN ents
        ELSE SelectSeq(ents, LAMBDA e : KeepEntry(e, filters, crossPosts, st))

----------------------------------------------------------------------------
(* categorizeEntriesFromSource *)

\* categorizeEntriesFromSource whose 'processed' case falls through to 'ignored'
categorizeEntriesFallThrough(ents, st) ==
    [ toProcess |->
        sortWithGrouping(
            SelectSeq(ents, LAMBDA e : getEntryStatus(st, e.id) \notin {"processed", "ignored"}),
            "To Process"),
      processed |->
        sortWithGrouping(
            SelectSeq(ents, LAMBDA e : getEntryStatus(st, e.id) = "processed"), "Done"),
      ignored |->
        sortWithGrouping(
            SelectSeq(ents, LAMBDA e : getEntryStatus(st, e.id) \in {"processed", "ignored"}),
            "Ignored") ]

categorizeEntriesFromSource(ents, st) ==
    [ toProcess |->
        sortWithGrouping(
            SelectSeq(ents, LAMBDA e : getEntryStatus(st, e.id) \notin {"processed", "ignored"}),
            "To Process"),
      processed |->
        sortWithGrouping(
            SelectSeq(ents, LAMBDA e : getEntryStatus(st, e.id) = "processed"), "Done"),
      ignored |->
        sortWithGrouping(
            SelectSeq(ents, LAMBDA e : getEntryStatus(st, e.id) = "ignored"), "Ignored") ]

\* Render with the cross-post memo computed over the to_process entries only
RenderCrossPostsPerBucket(ents, filters, st) ==
    LET cp == findCrossPostDescriptions(
                  SelectSeq(ents, LAMBDA e : getEntryStatus(st, e.id) = "to_process"))
        fe == FilterEntries(ents, filters, cp, st)
    IN  [ crossPostDescriptions |-> cp, filteredEntries |-> fe,
          categorized |-> categorizeEntriesFromSource(fe, st) ]

\* a render of FeedEntries after entries or tagFilters changed: both memos are
\* recomputed and the recategorize effect runs
Render(ents, filters, st) ==
    LET cp == findCrossPostDescriptions(ents)
        fe == FilterEntries(ents, filters, cp, st)
    IN  [ crossPostDescriptions |-> cp, filteredEntries |-> fe,
          categorized |-> categorizeEntriesFromSource(fe, st) ]

----------------------------------------------------------------------------
(* fetchOgData and handleSyncComplete *)

\* the static branding fetchOgData returns for Reddit URLs
RedditOg == [ ogTitle |-> <<>>, ogDescription |-> <<>>, ogImage |-> <<"reddit-logo">> ]

\* what a page can yield: its Open Graph data
PageOg == [ ogTitle |-> <<>>, ogDescription |-> <<"X", " ">>, ogImage |-> <<"img">> ]

\* the values fetchOgData(url) can resolve to
fetchOgData(url) ==
    IF url = <<>> THEN { None }
    ELSE IF Includes(url, <<"reddit.com">>) THEN { Some(RedditOg) }
    ELSE { Some(PageOg), None }

\* entriesToProcess.filter(e => e.ogLoading && !e.og), as the ids and links the loop reads
entriesNeedingOg(ents) ==
    LET need == SelectSeq(ents, LAMBDA e : e.ogLoading /\ e.og = None)
    IN  [ i \in 1..Len(need) |-> [ id |-> need[i].id, link |-> need[i].link ] ]

\* ApplyOg that puts the enriched entry first
ApplyOgEnrichedFirst(prev, id, og) ==
    [ i \in 1..Len(SelectSeq(prev, LAMBDA e : e.id = id)) |->
        [SelectSeq(prev, LAMBDA e : e.id = id)[i] EXCEPT !.og = og, !.ogLoading = FALSE] ]
      \o SelectSeq(prev, LAMBDA e : e.id # id)

\* prev.map(e => e.id === entry.id ? { ...e, og, ogLoading: false } : e)
ApplyOg(prev, id, og) ==
    [ i \in 1..Len(prev) |->
        IF prev[i].id = id THEN [prev[i] EXCEPT !.og = og, !.ogLoading = FALSE]
        ELSE prev[i] ]

\* SyncedEntries without the historical entries
SyncedEntriesNoHistory(existingEntries, newEntries) == deduplicateEntries(newEntries)

\* the entry list handleSyncComplete stores
SyncedEntries(existingEntries, newEntries) ==
    LET withOg == { i \in 1..Len(existingEntries) : existingEntries[i].og # None }
        existingOg(id) ==
            IF \E i \in withOg : existingEntries[i].id = id
            THEN existingEntries[CHOOSE i \in withOg :
                     /\ existingEntries[i].id = id
                     /\ \A j \in withOg : existingEntries[j].id = id => j <= i].og
            ELSE None
        newEntryUrls == { newEntries[i].link : i \in 1..Len(newEntries) }
        historicalEntries ==
            SelectSeq(existingEntries, LAMBDA e : e.link \notin newEntryUrls)
        entriesWithExistingOg ==
            [ i \in 1..Len(newEntries) |->
                LET entry == newEntries[i]
                IN  IF existingOg(entry.id) # None
                    THEN IF entry.og # None /\ entry.og[1].ogImage # <<>>
                         THEN [entry EXCEPT !.ogLoading = FALSE]
                         ELSE [entry EXCEPT !.og = existingOg(entry.id),
                                            !.ogLoading = FALSE]
                    ELSE entry ]
    IN  deduplicateEntries(entriesWithExistingOg \o historicalEntries)

----------------------------------------------------------------------------
(* What the feeds and the external source can deliver *)

ArticleA == <<"reddit.com", "r", "comments", "a">>
CommentA1 == <<"reddit.com", "r", "comments", "a", "c", "1">>
CommentA2 == <<"reddit.com", "r", "comments", "a", "c", "2">>
CommentX1 == <<"reddit.com", "r", "comments", "x", "c", "1">>
Blog == <<"example.com", "post">>

\* parseEntries: id is the link, no og yet, ogLoading true
RssItems ==
    << NewEntry(CommentX1, CommentX1, 2, <<"x">>, <<"feed1">>, "Feed"),
       NewEntry(Blog, Blog, 1, <<"z">>, <<"feed1">>, "Feed") >>

\* the external sources deliver no post in this model
ExternalItems == <<>>

SysIds == { e.id : e \in Range(RssItems) \cup Range(ExternalItems) }

\* the ids groupCommentsUnderArticles can give to placeholder rows
PlaceholderIds ==
    { <<"dummy-article", getRedditArticleId(e.link)[1]>> :
        e \in { x \in Range(RssItems) \cup Range(ExternalItems) : IsCommentEntry(x) } }

----------------------------------------------------------------------------
(* Initial values of the application state *)

DEFAULT_TAG_FILTERS ==
    [ comment |-> "shown", crossPost |-> "shown", deleted |-> "shown",
      mentionsInterest |-> "shown", github |-> "shown",
      statusToProcess |-> "shown", statusDone |-> "shown",
      statusIgnored |-> "shown", feeds |-> [ t \in FeedTitles |-> Unset ] ]

EmptyCategorized == [ toProcess |-> <<>>, processed |-> <<>>, ignored |-> <<>> ]

SysInit ==
    /\ entries = <<>>
    /\ stored = <<>>
    /\ states = [ id \in SysIds \cup PlaceholderIds |-> Absent ]
    /\ tagFilters = DEFAULT_TAG_FILTERS
    /\ crossPostDescriptions = {}
    /\ filteredEntries = <<>>
    /\ categorized = EmptyCategorized
    /\ runs = <<>>
    /\ syncCount = 0

----------------------------------------------------------------------------
(* Bounded input sequences *)

\* the sequence <<f[1], ..., f[n]>>
RECURSIVE ToSeq(_, _)
ToSeq(f, n) == IF n = 0 THEN <<>> ELSE Append(ToSeq(f, n - 1), f[n])

----------------------------------------------------------------------------
(* The threader applied to one status bucket *)


ThreadLinks == { ArticleA, CommentA1, CommentA2, CommentX1, Blog }

\* publishedDate values: missing, or one of two valid dates
ThreadDates == { 0, 1, 2 }

\* a bucket: entries with distinct links, each with a missing or a valid date
ThreadBucket(links, n) ==
    { ToSeq([ i \in 1..n |-> NewEntry(l[i], l[i], d[i], <<>>, <<"feed1">>, "Feed") ], n) :
        l \in { f \in [1..n -> links] : \A a, b \in 1..n : a # b => f[a] # f[b] },
        d \in [1..n -> ThreadDates] }

InitThread ==
    /\ \E n \in 0..MaxThreadLen : input \in ThreadBucket(ThreadLinks, n)
    /\ output = <<>>
    /\ pc = "ready"
    /\ SysInit

RunThreader ==
    /\ pc = "ready"
    /\ output' = sortWithGrouping(input, "To Process")
    /\ pc' = "done"
    /\ UNCHANGED <<input, sysVars>>

NextThread == RunThreader

SpecThread == InitThread /\ [][NextThread]_vars

IsRealRoot(row) == ~row.isCommentThread /\ ~row.isDummyParent
IsHead(row) == ~row.isCommentThread

\* C1: in the threader's output every real root that has an article id is
\* immediately followed by one contiguous block holding all the bucket's
\* replies to that article id, with no other row in between.
C1_RepliesDirectlyUnderParent ==
    pc = "done" =>
        \A i \in 1..Len(output) :
            (IsRealRoot(output[i]) /\ getRedditArticleId(output[i].link) # None) =>
                LET a == getRedditArticleId(output[i].link)[1]
                    n == Len(CommentsOf(input, a))
                IN  \A k \in 1..n :
                        /\ i + k <= Len(output)
                        /\ output[i + k].isCommentThread
                        /\ getRedditArticleId(output[i + k].link) = Some(a)

\* the timestamp of a thread head: a root's own date, a placeholder's newest reply
HeadDate(row) ==
    IF row.isDummyParent
    THEN getEntryDate(CommentsOf(input, row.id[2])[1])
    ELSE getEntryDate(row)

Heads(rows) == SelectSeq(rows, IsHead)

\* C2: the thread heads of the output (real roots and placeholders, reply rows
\* ignored) are in non-increasing timestamp order.
C2_HeadsNewestFirst ==
    pc = "done" =>
        LET hs == Heads(output)
        IN  \A i \in 1..(Len(hs) - 1) : HeadDate(hs[i]) >= HeadDate(hs[i + 1])

\* the replies of the input bucket, and the article ids that have a root in it
InputReplies == SelectSeq(input, IsCommentEntry)
ParentId(row) == getRedditArticleId(row.link)[1]
RootIds ==
    { ParentId(input[i]) :
        i \in { j \in 1..Len(input) :
                  ~IsCommentEntry(input[j]) /\ getRedditArticleId(input[j].link) # None } }
OrphanIds == { ParentId(InputReplies[i]) : i \in 1..Len(InputReplies) } \ RootIds
RepliesTo(a) == SelectSeq(InputReplies, LAMBDA e : ParentId(e) = a)
IsPlaceholderFor(row, a) == row.isDummyParent /\ row.id = <<"dummy-article", a>>

\* C14: every reply of the bucket is emitted as a reply row, and each reply row
\* comes after a real root with its parent id when the bucket has one, and
\* otherwise after the placeholder made for its parent id.
C14_ReplyAfterRoot ==
    pc = "done" =>
        /\ \A i \in 1..Len(InputReplies) :
              \E p \in 1..Len(output) :
                  output[p].isCommentThread /\ output[p].id = InputReplies[i].id
        /\ \A p \in 1..Len(output) :
              output[p].isCommentThread =>
                  \E j \in 1..(p - 1) :
                      IF ParentId(output[p]) \in RootIds
                      THEN /\ IsRealRoot(output[j])
                           /\ getRedditArticleId(output[j].link) = Some(ParentId(output[p]))
                      ELSE IsPlaceholderFor(output[j], ParentId(output[p]))

C14_Witness ==
    /\ pc = "done"
    /\ \E p, q \in 1..Len(output) :
          /\ output[p].isCommentThread /\ ParentId(output[p]) \in RootIds
          /\ output[q].isCommentThread /\ ParentId(output[q]) \in OrphanIds

\* C15 as stated: of two replies of the same parent the one emitted earlier has
\* a strictly larger timestamp.
C15_RepliesStrictlyNewestFirst ==
    pc = "done" =>
        \A p, q \in 1..Len(output) :
            ( /\ p < q
              /\ output[p].isCommentThread /\ output[q].isCommentThread
              /\ ParentId(output[p]) = ParentId(output[q]) )
            => getEntryDate(output[p]) > getEntryDate(output[q])

\* C15 amended: of two replies of the same parent the one emitted earlier has a
\* timestamp at least as large, and replies with equal timestamps keep the
\* order they have in the input.
C15_RepliesNewestFirst ==
    pc = "done" =>
        \A p, q \in 1..Len(output) :
            ( /\ p < q
              /\ output[p].isCommentThread /\ output[q].isCommentThread
              /\ ParentId(output[p]) = ParentId(output[q]) )
            => /\ getEntryDate(output[p]) >= getEntryDate(output[q])
               /\ getEntryDate(output[p]) = getEntryDate(output[q]) =>
                     \E i, j \in 1..Len(input) :
                         i < j /\ input[i].id = output[p].id /\ input[j].id = output[q].id

\* Scenario B: a root with an older date than its two replies
C15_Witness ==
    /\ pc = "done"
    /\ Len(output) = 3
    /\ IsRealRoot(output[1])
    /\ output[2].isCommentThread /\ output[3].isCommentThread
    /\ getEntryDate(output[1]) < getEntryDate(output[3])
    /\ getEntryDate(output[3]) < getEntryDate(output[2])

\* C16: each parent id that has replies but no root in the bucket gets exactly
\* one placeholder, directly followed by all replies of that parent id; a
\* placeholder exists only for such a parent id.
C16_OnePlaceholderPerOrphanGroup ==
    pc = "done" =>
        /\ \A a \in OrphanIds :
              /\ Cardinality({ p \in 1..Len(output) : IsPlaceholderFor(output[p], a) }) = 1
              /\ \A p \in 1..Len(output) :
                    IsPlaceholderFor(output[p], a) =>
                        LET n == Len(RepliesTo(a))
                        IN  /\ p + n <= Len(output)
                            /\ \A k \in 1..n :
                                  /\ output[p + k].isCommentThread
                                  /\ ParentId(output[p + k]) = a
                            /\ { output[p + k].id : k \in 1..n }
                                  = { RepliesTo(a)[k].id : k \in 1..n }
        /\ \A p \in 1..Len(output) :
              output[p].isDummyParent =>
                  \E a \in OrphanIds : IsPlaceholderFor(output[p], a)

\* Scenario C: an orphan reply newer than a real root gives [placeholder, C, D]
C16_Witness ==
    /\ pc = "done"
    /\ Len(input) = 2
    /\ Len(output) = 3
    /\ output[1].isDummyParent
    /\ output[2].isCommentThread
    /\ IsRealRoot(output[3])
    /\ getRedditArticleId(output[3].link) # None

\* the largest timestamp among the replies to a
NewestReplyDate(a) ==
    CHOOSE d \in { getEntryDate(RepliesTo(a)[k]) : k \in 1..Len(RepliesTo(a)) } :
        \A k \in 1..Len(RepliesTo(a)) : getEntryDate(RepliesTo(a)[k]) <= d

\* C17: a placeholder's timestamp, as getEntryDate computes it, is the newest
\* timestamp among the replies of its group, and the count in its title is the
\* number of replies of the group.
C17_PlaceholderDateAndCount ==
    pc = "done" =>
        \A p \in 1..Len(output) : \A a \in OrphanIds :
            IsPlaceholderFor(output[p], a) =>
                /\ getEntryDate(output[p]) = NewestReplyDate(a)
                /\ output[p].title[2] = NumStr(Len(RepliesTo(a)))

C17_Witness ==
    /\ pc = "done"
    /\ \E p \in 1..Len(output) : \E a \in OrphanIds :
          /\ IsPlaceholderFor(output[p], a)
          /\ Len(RepliesTo(a)) = 2
          /\ getEntryDate(RepliesTo(a)[1]) < getEntryDate(RepliesTo(a)[2])

----------------------------------------------------------------------------
(* The threader applied to a bucket with a reply-shaped link lacking an id *)

\* a Reddit link with /c/ and no /comments/ID
BareComment == <<"reddit.com", "r", "sub", "c", "1">>

DegradedLinks == { ArticleA, CommentA1, CommentX1, BareComment, Blog }

InitDegraded ==
    /\ \E n \in 0..MaxThreadLen : input \in ThreadBucket(DegradedLinks, n)
    /\ output = <<>>
    /\ pc = "ready"
    /\ SysInit

SpecDegraded == InitDegraded /\ [][NextThread]_vars

ReplyShapedWithoutId(e) == isRedditComment(e.link) /\ getRedditArticleId(e.link) = None

\* C20: a reply-shaped entry without an extractable parent id is emitted once,
\* unchanged, as a root row that is neither a reply nor a placeholder, no
\* placeholder is made for it, and among the thread heads it stands in
\* timestamp order: no head before it is older, no head after it is newer.
C20_DegradedReplyIsRoot ==
    pc = "done" =>
        \A i \in 1..Len(input) :
            ReplyShapedWithoutId(input[i]) =>
                /\ Cardinality({ p \in 1..Len(output) : output[p].id = input[i].id }) = 1
                /\ \A p \in 1..Len(output) :
                      output[p].id = input[i].id =>
                          /\ output[p] = input[i]
                          /\ \A q \in 1..Len(output) :
                                IsHead(output[q]) =>
                                    /\ q < p => HeadDate(output[q]) >= getEntryDate(input[i])
                                    /\ q > p => HeadDate(output[q]) <= getEntryDate(input[i])
                /\ \A p \in 1..Len(output) :
                      output[p].isDummyParent =>
                          \E a \in OrphanIds : IsPlaceholderFor(output[p], a)

----------------------------------------------------------------------------
(* The deduplicator applied to one list *)

LinkP == <<"example.com", "p">>
LinkQ == <<"example.com", "q">>

OgData == [ ogTitle |-> <<>>, ogDescription |-> <<>>, ogImage |-> <<"img">> ]

DedupDates == { BadDate, 0, 1, 2 }

\* entries as they come from a feed, from storage or from a finished backfill
DedupEntries ==
    { [NewEntry(l, l, d, <<>>, <<"feed1">>, "Feed") EXCEPT !.og = o.og, !.ogLoading = o.ld] :
        l \in { LinkP, LinkQ }, d \in DedupDates,
        o \in { [og |-> None, ld |-> TRUE], [og |-> Some(OgData), ld |-> FALSE] } }
    \cup { NewEntry(<<"no-link">>, <<>>, 1, <<>>, <<"feed1">>, "Feed") }

InitDedup ==
    /\ \E n \in 0..MaxDedupLen : \E f \in [1..n -> DedupEntries] : input = ToSeq(f, n)
    /\ output = <<>>
    /\ pc = "ready"
    /\ SysInit

RunDedup ==
    /\ pc = "ready"
    /\ output' = deduplicateEntries(input)
    /\ pc' = "done"
    /\ UNCHANGED <<input, sysVars>>

NextDedup == RunDedup

SpecDedup == InitDedup /\ [][NextDedup]_vars

Links(es) == { es[i].link : i \in 1..Len(es) }

C4_NewestWinsKeepsEnrichment ==
    (pc = "done" /\ Len(input) = 2) =>
        \A i, j \in 1..2 :
            ( /\ i # j
              /\ input[i].link = input[j].link /\ input[i].link # <<>>
              /\ input[i].publishedDate # BadDate /\ input[j].publishedDate # BadDate
              /\ input[i].publishedDate > input[j].publishedDate
              /\ input[i].og = None /\ input[j].og # None )
            => /\ Len(output) = 1
               /\ output[1].publishedDate = input[i].publishedDate
               /\ output[1].og = input[j].og

Reorderings(s) ==
    { [ i \in 1..Len(s) |-> s[p[i]] ] :
        p \in { q \in [1..Len(s) -> 1..Len(s)] :
                  \A a, b \in 1..Len(s) : a # b => q[a] # q[b] } }

\* C5: every permutation of the input yields the same set of surviving records.
C5_Commutative ==
    pc = "done" =>
        \A p \in Reorderings(input) : Range(deduplicateEntries(p)) = Range(output)

\* C6: deduplicating the result again returns it unchanged, in the same order.
C6_Idempotent ==
    pc = "done" => deduplicateEntries(output) = output

C6_Witness ==
    /\ pc = "done"
    /\ Len(input) = 3
    /\ Len(output) = 2
    /\ \E i \in 1..2 : output[i] \notin Range(input)

\* a date string that is missing or that Date cannot parse
Undated(e) == e.publishedDate = 0 \/ e.publishedDate = BadDate

\* C19: an entry whose date is missing or unparsable counts as the oldest: of
\* two records with the same link it loses to the one with a valid date,
\* whichever comes first, and the threader puts it after every dated entry.
C19_UndatedIsOldest ==
    pc = "done" =>
        /\ Len(input) = 2 =>
              \A i, j \in 1..2 :
                  ( /\ i # j
                    /\ input[i].link = input[j].link /\ input[i].link # <<>>
                    /\ Undated(input[i]) /\ ~Undated(input[j]) )
                  => /\ Len(output) = 1
                     /\ output[1].publishedDate = input[j].publishedDate
        /\ LET rows == sortWithGrouping(output, "To Process")
           IN  \A p, q \in 1..Len(rows) :
                   (Undated(rows[p]) /\ ~Undated(rows[q])) => q < p

----------------------------------------------------------------------------
(* The cross-post detector applied to one entry list *)

CrossDescriptions ==
    { <<>>, <<"x">>, <<" ", "X", " ">>, <<"y">>, <<"KW", " ", "x">> }

CrossOg ==
    { None,
      Some([ ogTitle |-> <<>>, ogDescription |-> <<>>, ogImage |-> <<"img">> ]),
      Some([ ogTitle |-> <<>>, ogDescription |-> <<"Y">>, ogImage |-> <<>> ]) }

CrossEntries ==
    { [NewEntry(l, l, 1, d, <<"feed1">>, "Feed") EXCEPT !.og = o, !.ogLoading = (o = None)] :
        l \in { LinkP, LinkQ, <<>> }, d \in CrossDescriptions, o \in CrossOg }

InitCross ==
    /\ \E n \in 0..MaxCrossLen : \E f \in [1..n -> CrossEntries] : input = ToSeq(f, n)
    /\ output = {}
    /\ pc = "ready"
    /\ SysInit

RunCrossPost ==
    /\ pc = "ready"
    /\ output' = findCrossPostDescriptions(input)
    /\ pc' = "done"
    /\ UNCHANGED <<input, sysVars>>

NextCross == RunCrossPost

SpecCross == InitCross /\ [][NextCross]_vars

LinksWith(es, d) ==
    { es[i].link : i \in { j \in 1..Len(es) : getEntryDescription(es[j]) = d } }
        \ { <<>> }

\* C9: the result is exactly the set of normalized descriptions that are
\* non-empty, match no exception pattern and occur with at least two distinct
\* links; entries sharing such a description are tagged, a description with a
\* single link is not.
C9_CrossPostExact ==
    pc = "done" =>
        /\ output = { d \in { getEntryDescription(input[i]) : i \in 1..Len(input) } :
                        /\ d # <<>>
                        /\ ~isCrossPostException(d)
                        /\ Cardinality(LinksWith(input, d)) >= 2 }
        /\ \A i, j \in 1..Len(input) :
              ( /\ getEntryDescription(input[i]) = getEntryDescription(input[j])
                /\ getEntryDescription(input[i]) # <<>>
                /\ ~isCrossPostException(getEntryDescription(input[i]))
                /\ input[i].link # <<>> /\ input[j].link # <<>>
                /\ input[i].link # input[j].link )
              => isCrossPost(input[i], output) /\ isCrossPost(input[j], output)
        /\ \A i \in 1..Len(input) :
              Cardinality(LinksWith(input, getEntryDescription(input[i]))) < 2
              => ~isCrossPost(input[i], output)

C9_Witness ==
    /\ pc = "done"
    /\ output = { <<"y">> }
    /\ Len(input) = 2
    /\ input[1].description # input[2].description

----------------------------------------------------------------------------
(* One render of FeedEntries: cross-post memo, tag filter, classification *)

MaxFilterLen == 2
MaxFilterHidden == 2

GitHubLink == <<"github.com", "livekit", "agents">>

\* entries that between them carry every content tag; FilterItems[2] has no
\* feed title and shares its normalized description with FilterItems[1]
FilterItems ==
    << NewEntry(CommentX1, CommentX1, 1, <<"x">>, <<"feed1">>, "Feed"),
       NewEntry(GitHubLink, GitHubLink, 2, <<" ", "X">>, <<"feed2">>, ""),
       NewEntry(LinkP, LinkP, 0, <<"note", "[REMOVED]">>, <<"feed1">>, "Feed"),
       [NewEntry(LinkQ, LinkQ, 2, <<"y">>, <<"feed1">>, "Feed")
           EXCEPT !.title = <<"about", "INTEREST">>] >>

\* tag filters with at most MaxFilterHidden toggles hidden
FilterConfigs ==
    { [ key \in StaticTags \cup { "feeds" } |->
            IF key = "feeds" THEN [ t \in FeedTitles |-> c.feed ]
            ELSE IF key \in c.hidden THEN "hidden" ELSE "shown" ] :
        c \in { x \in [ hidden : SUBSET StaticTags, feed : { Unset, "shown", "hidden" } ] :
                  Cardinality(x.hidden) + (IF x.feed = "hidden" THEN 1 ELSE 0)
                      <= MaxFilterHidden } }

InitFilter ==
    /\ \E n \in 0..MaxFilterLen :
         \E k \in { f \in [1..n -> 1..Len(FilterItems)] :
                        \A a, b \in 1..n : a # b => f[a] # f[b] } :
         \E st \in [ { FilterItems[k[i]].id : i \in 1..n }
                        -> { Absent, "processed", "ignored" } ] :
         \E filters \in FilterConfigs :
            /\ input = [ entries |-> ToSeq([ i \in 1..n |-> FilterItems[k[i]] ], n),
                         filters |-> filters, states |-> st ]
    /\ output = <<>>
    /\ pc = "ready"
    /\ SysInit

RunRender ==
    /\ pc = "ready"
    /\ output' = Render(input.entries, input.filters, input.states)
    /\ pc' = "done"
    /\ UNCHANGED <<input, sysVars>>

NextFilter == RunRender

SpecFilter == InitFilter /\ [][NextFilter]_vars

AnyHidden(filters) ==
    \/ \E tag \in StaticTags : filters[tag] = "hidden"
    \/ \E t \in DOMAIN filters.feeds : filters.feeds[t] = "hidden"

\* the toggles that apply to an entry: its content tags, the tag of its current
\* status and, when it has a feed title, its source label
ApplicableTags(e, ents, st) ==
    LET text == toLowerCase(DisplayTitle(e)) \o <<"|">> \o toLowerCase(DisplayDescription(e))
        status == getEntryStatus(st, e.id)
    IN  { t \in StaticTags :
            \/ t = "comment" /\ isRedditComment(e.link)
            \/ t = "crossPost" /\ Cardinality(LinksWith(ents, getEntryDescription(e))) >= 2
                               /\ ~isCrossPostException(getEntryDescription(e))
            \/ t = "deleted" /\ "[removed]" \in Range(toLowerCase(DisplayDescription(e)))
            \/ t = "mentionsInterest" /\ "interest" \in Range(text)
            \/ t = "github" /\ Includes(e.link, <<"github.com", "livekit">>)
            \/ t = "statusToProcess" /\ status = "to_process"
            \/ t = "statusDone" /\ status = "processed"
            \/ t = "statusIgnored" /\ status = "ignored" }
        \cup { <<"feed", e.feedTitle>> : x \in { y \in { 1 } : e.feedTitle # "" } }

ToggleOf(filters, t) ==
    IF t \in StaticTags THEN filters[t] ELSE getFeedFilterState(filters, t[2])

\* C11: with at least one toggle hidden, the filtered list holds exactly the
\* entries none of whose applicable tags has a hidden toggle, in input order.
C11_KeptIffNoHiddenTag ==
    (pc = "done" /\ AnyHidden(input.filters)) =>
        output.filteredEntries =
            SelectSeq(input.entries,
                      LAMBDA e : \A t \in ApplicableTags(e, input.entries, input.states) :
                                     ToggleOf(input.filters, t) # "hidden")

\* an entry with one hidden and one shown applicable tag is removed, another stays
C11_Witness ==
    /\ pc = "done"
    /\ Len(input.entries) = 2
    /\ Len(output.filteredEntries) = 1
    /\ \E i \in 1..2 :
          LET tags == ApplicableTags(input.entries[i], input.entries, input.states)
          IN  /\ input.entries[i] \notin Range(output.filteredEntries)
              /\ Cardinality({ t \in tags : ToggleOf(input.filters, t) = "hidden" }) = 1
              /\ Cardinality(tags) >= 3

\* C12: with no static, status or feed toggle hidden, the filtered list is the
\* input list, same entries in the same order.
C12_NoHiddenIsIdentity ==
    (pc = "done" /\ ~AnyHidden(input.filters)) =>
        output.filteredEntries = input.entries

C12_Witness ==
    /\ pc = "done"
    /\ ~AnyHidden(input.filters)
    /\ input.filters.feeds["Feed"] = "shown"
    /\ Len(output.filteredEntries) = 2
    /\ getEntryDate(output.filteredEntries[1]) < getEntryDate(output.filteredEntries[2])
    /\ output.crossPostDescriptions # {}

BucketIds(bucket) ==
    { bucket[i].id : i \in { j \in 1..Len(bucket) : ~bucket[j].isDummyParent } }

BucketOf(c, status) ==
    CASE status = "processed" -> c.processed
      [] status = "ignored" -> c.ignored
      [] OTHER -> c.toProcess

\* C13: every entry of the filtered list is in the bucket of its status-map
\* entry, to_process when its id is absent from the map, and in no other
\* bucket; the buckets hold no entry that is not in the filtered list.
C13_ExactlyOneBucket ==
    pc = "done" =>
        /\ \A i \in 1..Len(output.filteredEntries) :
              LET e == output.filteredEntries[i]
                  own == IF e.id \in DOMAIN input.states /\ input.states[e.id] # Absent
                         THEN input.states[e.id] ELSE "to_process"
              IN  \A status \in { "to_process", "processed", "ignored" } :
                      e.id \in BucketIds(BucketOf(output.categorized, status))
                          <=> status = own
        /\ BucketIds(output.categorized.toProcess)
              \cup BucketIds(output.categorized.processed)
              \cup BucketIds(output.categorized.ignored)
              = { output.filteredEntries[i].id : i \in 1..Len(output.filteredEntries) }

C13_Witness ==
    /\ pc = "done"
    /\ Len(output.filteredEntries) = 2
    /\ Len(output.categorized.processed) = 1
    /\ Len(output.categorized.toProcess) = 2
    /\ output.categorized.toProcess[1].isDummyParent

----------------------------------------------------------------------------
(* The application: syncs, enrichment backfill, status actions, filter toggles *)

\* what a fetch can return: the k newest items of the source
FeedWindows(items) == { SubSeq(items, 1, k) : k \in 0..Len(items) }

isExternalEntry(e) ==
    e.feedId # <<>> /\ e.feedId[1] \in { "skool-", "stackoverflow-" }

\* SyncBatch that replaces everything on a partial sync too
SyncBatchReplaceAll(syncType, rssEntries, externalEntries, existingEntries) ==
    rssEntries \o externalEntries

\* allEntries as handleSync builds it from what was fetched
SyncBatch(syncType, rssEntries, externalEntries, existingEntries) ==
    IF syncType = "all" THEN rssEntries \o externalEntries
    ELSE IF syncType = "rss"
    THEN rssEntries \o SelectSeq(existingEntries, isExternalEntry)
    ELSE SelectSeq(existingEntries, LAMBDA e : ~isExternalEntry(e)) \o externalEntries

\* setEntries / setTagFilters followed by the render of FeedEntries
Refresh(ents, filters) ==
    LET r == Render(ents, filters, states)
    IN  /\ crossPostDescriptions' = r.crossPostDescriptions
        /\ filteredEntries' = r.filteredEntries
        /\ categorized' = r.categorized

\* handleSyncComplete(newEntries, errors); gen is the value of syncCount when
\* the backfill run was started
SyncComplete(newEntries) ==
    LET deduplicatedEntries == SyncedEntries(stored, newEntries)
    IN  /\ syncCount < MaxSyncs
        /\ syncCount' = syncCount + 1
        /\ entries' = deduplicatedEntries
        /\ stored' = deduplicatedEntries
        /\ runs' = Append(runs, [ queue |-> entriesNeedingOg(deduplicatedEntries),
                                  fetching |-> FALSE,
                                  gen |-> syncCount + 1 ])
        /\ Refresh(deduplicatedEntries, tagFilters)
        /\ UNCHANGED <<states, tagFilters, pureVars>>

\* handleSync(syncType) whose fetches succeeded
HandleSync(syncType, rssEntries, externalEntries) ==
    SyncComplete(SyncBatch(syncType,
                           IF syncType = "external" THEN <<>> ELSE rssEntries,
                           IF syncType = "rss" THEN <<>> ELSE externalEntries,
                           stored))

\* handleSync whose try block threw: onSyncComplete([], ...)
HandleSyncFailed == SyncComplete(<<>>)

\* fetchOgDataForEntries: the loop reaches `await fetchOgData(entry.link)`
BackfillFetch(r) ==
    /\ r \in 1..Len(runs)
    /\ runs[r].queue # <<>>
    /\ ~runs[r].fetching
    /\ runs' = [runs EXCEPT ![r].fetching = TRUE]
    /\ UNCHANGED <<entries, stored, states, tagFilters, crossPostDescriptions,
                   filteredEntries, categorized, syncCount, pureVars>>

\* the fetch resolved: setEntries(prev => ...) with saveEntries(updated)
BackfillApply(r) ==
    /\ r \in 1..Len(runs)
    /\ runs[r].fetching
    /\ \E og \in fetchOgData(Head(runs[r].queue).link) :
         LET updated == ApplyOg(entries, Head(runs[r].queue).id, og)
         IN  /\ entries' = updated
             /\ stored' = updated
             /\ Refresh(updated, tagFilters)
    /\ runs' = [runs EXCEPT ![r].queue = Tail(@), ![r].fetching = FALSE]
    /\ UNCHANGED <<states, tagFilters, syncCount, pureVars>>

\* Displayed for rows whose buttons lack the !isDummyParent test
DisplayedWithPlaceholders(bucket) == { bucket[i].id : i \in 1..Len(bucket) }

\* the ids of the rows of a bucket that render action buttons
Displayed(bucket) ==
    { bucket[i].id : i \in { j \in 1..Len(bucket) : ~bucket[j].isDummyParent } }

\* handleAction(entryId, action) from a button of a displayed row
HandleAction(entryId, action) ==
    /\ \/ action \in { "process", "ignore" } /\ entryId \in Displayed(categorized.toProcess)
       \/ action = "restore"
            /\ entryId \in Displayed(categorized.processed) \cup Displayed(categorized.ignored)
    /\ states' = CASE action = "process" -> markAsProcessed(states, entryId)
                    [] action = "ignore" -> markAsIgnored(states, entryId)
                    [] action = "restore" -> restoreEntry(states, entryId)
    /\ categorized' = categorizeEntriesFromSource(filteredEntries, states')
    /\ UNCHANGED <<entries, stored, tagFilters, crossPostDescriptions,
                   filteredEntries, runs, syncCount, pureVars>>

HiddenCount(filters) ==
    Cardinality({ tag \in StaticTags : filters[tag] = "hidden" })
      + Cardinality({ t \in DOMAIN filters.feeds : filters.feeds[t] = "hidden" })

\* handleTagFilterChange(tag) -> handleTagFiltersChange
ToggleTag(tag) ==
    LET filters == [tagFilters EXCEPT ![tag] = toggleFilterState(tagFilters[tag])]
    IN  /\ HiddenCount(filters) <= MaxHidden
        /\ tagFilters' = filters
        /\ Refresh(entries, filters)
        /\ UNCHANGED <<entries, stored, states, runs, syncCount, pureVars>>

uniqueFeedTitles(ents) == { ents[i].feedTitle : i \in 1..Len(ents) } \ { "" }

\* handleFeedFilterChange(feedTitle) -> handleTagFiltersChange
ToggleFeed(feedTitle) ==
    LET currentState == getFeedFilterState(tagFilters, feedTitle)
        filters == [tagFilters EXCEPT !.feeds[feedTitle] = toggleFilterState(currentState)]
    IN  /\ feedTitle \in uniqueFeedTitles(entries)
        /\ HiddenCount(filters) <= MaxHidden
        /\ tagFilters' = filters
        /\ Refresh(entries, filters)
        /\ UNCHANGED <<entries, stored, states, runs, syncCount, pureVars>>

\* the toggles the user flips in this model
ToggledTags == { "crossPost", "statusDone" }

Init ==
    /\ input = <<>>
    /\ output = <<>>
    /\ pc = "idle"
    /\ SysInit

Next ==
    \/ \E syncType \in { "all", "rss", "external" },
          rssEntries \in FeedWindows(RssItems),
          externalEntries \in FeedWindows(ExternalItems) :
            HandleSync(syncType, rssEntries, externalEntries)
    \/ HandleSyncFailed
    \/ \E r \in 1..MaxSyncs : BackfillFetch(r)
    \/ \E r \in 1..MaxSyncs : BackfillApply(r)
    \/ \E entryId \in SysIds \cup PlaceholderIds,
          action \in { "process", "ignore", "restore" } :
            HandleAction(entryId, action)
    \/ \E tag \in ToggledTags : ToggleTag(tag)
    \/ \E feedTitle \in FeedTitles : ToggleFeed(feedTitle)

Spec == Init /\ [][Next]_vars

\* the pipeline recomputed from scratch on the three inputs
Pipeline(ents, filters, st) ==
    categorizeEntriesFromSource(
        FilterEntries(ents, filters, findCrossPostDescriptions(ents), st), st)

StatusToggle(status) ==
    CASE status = "processed" -> "statusDone"
      [] status = "ignored" -> "statusIgnored"
      [] OTHER -> "statusToProcess"

AllDisplayed ==
    Displayed(categorized.toProcess) \cup Displayed(categorized.processed)
        \cup Displayed(categorized.ignored)

\* C7: after every event the displayed buckets equal the pipeline recomputed on
\* the current entries, status map and filters, and no displayed entry has a
\* status whose toggle is hidden.
C7_DisplayIsPipeline ==
    /\ categorized = Pipeline(entries, tagFilters, states)
    /\ \A id \in AllDisplayed :
          tagFilters[StatusToggle(getEntryStatus(states, id))] # "hidden"

\* C8: a backfill run started before the latest sync completion neither starts
\* a fetch nor applies an update.
C8_StaleRunStops ==
    [][\A r \in 1..Len(runs) : runs[r].gen < syncCount => runs'[r] = runs[r]]_vars

\* C10: the cross-post set is the detector's result on the full entry list,
\* and a change of the status map or of the filters leaves the set and every
\* entry's cross-post tag as they were.
C10_CrossPostFrame ==
    /\ [](crossPostDescriptions = findCrossPostDescriptions(entries))
    /\ [][(states' # states \/ tagFilters' # tagFilters) =>
             /\ crossPostDescriptions' = crossPostDescriptions
             /\ \A i \in 1..Len(entries) :
                   isCrossPost(entries[i], crossPostDescriptions')
                     = isCrossPost(entries[i], crossPostDescriptions)]_vars

C10_Witness ==
    /\ crossPostDescriptions # {}
    /\ tagFilters.crossPost = "hidden"
    /\ \E i \in 1..Len(entries) :
          /\ isCrossPost(entries[i], crossPostDescriptions)
          /\ getEntryStatus(states, entries[i].id) = "processed"

\* C18: no action is ever recorded for a placeholder: in every reachable state
\* the status map holds no entry for a placeholder id, and a step that changes
\* the status map changes it for the id of a row that is not a placeholder.
C18_PlaceholderNotActionable ==
    /\ [](\A id \in PlaceholderIds : states[id] = Absent)
    /\ [][states' # states =>
             \E id \in AllDisplayed \ PlaceholderIds :
                 \A other \in DOMAIN states \ { id } : states'[other] = states[other]]_vars

\* a placeholder is on display in the Done bucket above its processed comment
C18_Witness ==
    /\ Len(categorized.processed) = 2
    /\ categorized.processed[1].isDummyParent
    /\ categorized.processed[1].id \in PlaceholderIds
    /\ getEntryStatus(states, categorized.processed[2].id) = "processed"

----------------------------------------------------------------------------
(* Home: loading the stored tag filters on mount, then one filter pass *)

MaxStoredOdd == 2

\* what a stored toggle can hold: nothing (Unset), a current value, or a value
\* of the old three-state model
StoredValues == { Unset, "shown", "hidden", "exclude" }

\* the keys a stored feeds object can have
StoredFeedKeys == { "Feed", "Gone" }

\* kind of the stored text: no item, text that JSON.parse rejects (or that
\* parses to null), or an object
StoredKinds == { "none", "corrupt", "object" }

\* sanitizeValue that lets unknown values through as 'hidden'
sanitizeValueStrict(val) == IF val \in { Unset, "shown" } THEN "shown" ELSE "hidden"

sanitizeValue(val) == IF val = "hidden" THEN "hidden" ELSE "shown"

\* the tagFilters state after the mount effect read storedFilters
LoadTagFilters(storedFilters) ==
    IF storedFilters.kind # "object" THEN DEFAULT_TAG_FILTERS
    ELSE [ key \in StaticTags \cup { "feeds" } |->
             IF key = "feeds"
             THEN IF ~storedFilters.feedsIsObject THEN [ k \in {} |-> Unset ]
                  ELSE [ k \in { x \in StoredFeedKeys : storedFilters.feeds[x] # Unset } |->
                           sanitizeValue(storedFilters.feeds[k]) ]
             ELSE sanitizeValue(storedFilters.parsed[key]) ]

\* entries of a stored feed, of a feed the stored filters do not know, and of
\* no feed
LoadItems ==
    << NewEntry(LinkP, LinkP, 2, <<"p">>, <<"feed1">>, "Feed"),
       NewEntry(LinkQ, LinkQ, 1, <<"q">>, <<"feed2">>, "New"),
       NewEntry(Blog, Blog, 0, <<"b">>, <<"feed3">>, "") >>

\* stored filters: parsed holds the static toggles, of which at most
\* MaxStoredOdd hold something else than 'shown'; feeds is parsed.feeds when
\* that is an object
StoredFilterObjects ==
    { f \in [ kind : StoredKinds,
              parsed : [ StaticTags -> StoredValues ],
              feedsIsObject : BOOLEAN,
              feeds : [ StoredFeedKeys -> StoredValues ] ] :
        /\ Cardinality({ tag \in StaticTags : f.parsed[tag] # "shown" }) <= MaxStoredOdd
        /\ f.kind # "object" =>
              /\ \A tag \in StaticTags : f.parsed[tag] = "shown"
              /\ ~f.feedsIsObject
        /\ ~f.feedsIsObject => \A k \in StoredFeedKeys : f.feeds[k] = Unset }

InitLoad ==
    /\ \E storedFilters \in StoredFilterObjects :
         input = [ storedFilters |-> storedFilters, entries |-> LoadItems,
                   states |-> [ id \in { LoadItems[i].id : i \in 1..Len(LoadItems) } |-> Absent ] ]
    /\ output = <<>>
    /\ pc = "ready"
    /\ SysInit

\* the mount effect: setTagFilters(sanitizedFilters), or the defaults
LoadFilters ==
    /\ pc = "ready"
    /\ output' = [ filters |-> LoadTagFilters(input.storedFilters) ]
    /\ pc' = "loaded"
    /\ UNCHANGED <<input, sysVars>>

\* the filteredEntries memo under the loaded filters
RunLoadedFilter ==
    /\ pc = "loaded"
    /\ output' = [ filters |-> output.filters,
                   filteredEntries |->
                       FilterEntries(input.entries, output.filters,
                                     findCrossPostDescriptions(input.entries),
                                     input.states) ]
    /\ pc' = "done"
    /\ UNCHANGED <<input, sysVars>>

NextLoad == LoadFilters \/ RunLoadedFilter

SpecLoad == InitLoad /\ [][NextLoad]_vars

IsStoredObject(storedFilters) == storedFilters.kind = "object"

\* the source label has no key in the per-source map
UnknownLabel(filters, feedTitle) ==
    feedTitle \notin DOMAIN filters.feeds \/ filters.feeds[feedTitle] = Unset

\* C21: loading maps a stored toggle to 'hidden' only when it holds 'hidden' and
\* to 'shown' otherwise (missing keys, old values, a feeds value that is no
\* object), text that cannot be parsed gives the defaults, and an entry whose
\* source label has no key in the loaded per-source map is kept whenever no
\* static toggle that applies to it is hidden.
C21_UnknownIsShown ==
    /\ pc # "ready" =>
         /\ \A tag \in StaticTags : output.filters[tag] \in { "shown", "hidden" }
         /\ IsStoredObject(input.storedFilters) =>
              /\ \A tag \in StaticTags :
                    output.filters[tag] = "hidden" <=> input.storedFilters.parsed[tag] = "hidden"
              /\ \A k \in StoredFeedKeys :
                    getFeedFilterState(output.filters, k) = "hidden"
                        <=> input.storedFilters.feeds[k] = "hidden"
         /\ ~IsStoredObject(input.storedFilters) => ~AnyHidden(output.filters)
    /\ pc = "done" =>
         \A e \in Range(input.entries) :
            ( /\ UnknownLabel(output.filters, e.feedTitle)
              /\ \A t \in ApplicableTags(e, input.entries, input.states) \cap StaticTags :
                    output.filters[t] # "hidden" )
                => e \in Range(output.filteredEntries)

\* an old value was loaded as 'shown', the stored feed is hidden, and the entry
\* of the unknown feed is kept while the entry of the hidden feed is removed
C21_Witness ==
    /\ pc = "done"
    /\ IsStoredObject(input.storedFilters)
    /\ input.storedFilters.parsed.comment = "exclude"
    /\ output.filters.comment = "shown"
    /\ input.storedFilters.feeds["Feed"] = "hidden"
    /\ input.storedFilters.feeds["Gone"] = "exclude"
    /\ LoadItems[1] \notin Range(output.filteredEntries)
    /\ LoadItems[2] \in Range(output.filteredEntries)

----------------------------------------------------------------------------
(* The render as it acts on its arguments: what the arrays and objects passed *)
(* in hold once it has returned                                               *)

\* a reply emitted by assigning comment.isCommentThread = true
CommentMarkedInPlace(comment) == [comment EXCEPT !.isCommentThread = TRUE]

\* the comment object after result.push({ ...comment, isCommentThread: true }):
\* the spread builds a new object
CommentAfterSpread(comment) == comment

\* the entries array after the render: the filter, the classification and
\* sortByDate build new arrays ([...entries], push), the in-place sorts act on
\* those, and the entry objects are shared with the buckets, where the comments
\* that were kept are emitted as replies
EntriesAfterRender(ents, filters, st) ==
    LET fe == Render(ents, filters, st).filteredEntries
    IN  [ i \in 1..Len(ents) |->
            IF ents[i] \in Range(fe) /\ IsCommentEntry(ents[i])
            THEN CommentAfterSpread(ents[i])
            ELSE ents[i] ]

\* one render; the code writes neither tagFilters nor the stored states
RunRenderOnArguments ==
    /\ pc = "ready"
    /\ output' = Render(input.entries, input.filters, input.states)
    /\ input' = [ entries |-> EntriesAfterRender(input.entries, input.filters, input.states),
                  filters |-> input.filters,
                  states |-> input.states ]
    /\ pc' = "done"
    /\ UNCHANGED sysVars

SpecFrame == InitFilter /\ [][RunRenderOnArguments]_vars

----------------------------------------------------------------------------
(* Frame of a backfill step *)

\* the step is the completion of the fetch of run r
BackfillStepOf(r) ==
    /\ r \in 1..Len(runs)
    /\ runs[r].fetching
    /\ ~runs'[r].fetching

\* C23: a completed backfill step keeps the entry list's ids, links and order;
\* the only entry it changes is the one whose id the fetch was for, and of that
\* entry it changes only og and ogLoading; what it stores is the updated list.
C23_BackfillKeepsIdentity ==
    [][\A r \in 1..Len(runs) : BackfillStepOf(r) =>
          /\ Len(entries') = Len(entries)
          /\ stored' = entries'
          /\ \A i \in 1..Len(entries) :
                /\ entries'[i].id = entries[i].id
                /\ entries'[i].link = entries[i].link
                /\ entries[i].id # Head(runs[r].queue).id => entries'[i] = entries[i]
                /\ \E og \in fetchOgData(Head(runs[r].queue).link) :
                      entries[i].id = Head(runs[r].queue).id =>
                          entries'[i] = [entries[i] EXCEPT !.og = og, !.ogLoading = FALSE]]_vars

\* the first entry was enriched by a step while the second still waits
C23_Witness ==
    /\ Len(entries) = 2
    /\ entries[1].og # None
    /\ ~entries[1].ogLoading
    /\ entries[2].og = None
    /\ entries[2].ogLoading
    /\ stored = entries

----------------------------------------------------------------------------
(* Syncs of RSS feeds and external sources, with the batch handed to *)
(* handleSyncComplete kept in input                                   *)

\* the og convertSkoolPostToRssEntry builds from post.authorAvatar
SkoolOg == [ ogTitle |-> <<>>, ogDescription |-> <<>>, ogImage |-> <<"avatar">> ]

\* convertSkoolPostToRssEntry: id is post.id, og only with an avatar,
\* ogLoading false; the second post has neither date nor avatar
SkoolItems ==
    << [NewEntry(<<"post", "1">>, <<"skool.com", "group", "1">>, 2, <<"s">>, <<"skool-", "group">>, "Skool")
           EXCEPT !.og = Some(SkoolOg), !.ogLoading = FALSE, !.lastCommentTime = 1],
       [NewEntry(<<"post", "2">>, <<"skool.com", "group", "2">>, 0, <<"t">>, <<"skool-", "group">>, "Skool")
           EXCEPT !.ogLoading = FALSE] >>

InitSync ==
    /\ input = [ syncType |-> "none", allEntries |-> <<>>, before |-> <<>>, after |-> <<>> ]
    /\ output = <<>>
    /\ pc = "idle"
    /\ SysInit

\* handleSyncComplete(allEntries, errors) as in SyncComplete; input records the
\* sync type, the batch, and the stored entries before and after
SyncCompleteRecorded(syncType, allEntries) ==
    LET deduplicatedEntries == SyncedEntries(stored, allEntries)
    IN  /\ syncCount < MaxSyncs
        /\ syncCount' = syncCount + 1
        /\ input' = [ syncType |-> syncType, allEntries |-> allEntries,
                      before |-> stored, after |-> deduplicatedEntries ]
        /\ entries' = deduplicatedEntries
        /\ stored' = deduplicatedEntries
        /\ runs' = Append(runs, [ queue |-> entriesNeedingOg(deduplicatedEntries),
                                  fetching |-> FALSE,
                                  gen |-> syncCount + 1 ])
        /\ Refresh(deduplicatedEntries, tagFilters)
        /\ UNCHANGED <<states, tagFilters, output, pc>>

\* handleSync(syncType) whose try block completed
HandleSyncRecorded(syncType, rssEntries, externalEntries) ==
    SyncCompleteRecorded(syncType,
        SyncBatch(syncType,
                  IF syncType = "external" THEN <<>> ELSE rssEntries,
                  IF syncType = "rss" THEN <<>> ELSE externalEntries,
                  stored))

\* handleSync whose try block threw: onSyncComplete([], ...)
HandleSyncFailedRecorded == SyncCompleteRecorded("failed", <<>>)

NextSync ==
    \/ \E syncType \in { "all", "rss", "external" },
          rssEntries \in FeedWindows(RssItems),
          externalEntries \in FeedWindows(SkoolItems) :
            HandleSyncRecorded(syncType, rssEntries, externalEntries)
    \/ HandleSyncFailedRecorded
    \/ \E r \in 1..MaxSyncs : BackfillFetch(r)
    \/ \E r \in 1..MaxSyncs : BackfillApply(r)

SpecSync == InitSync /\ [][NextSync]_vars

\* stored entries of the source type a partial sync of this type leaves alone
Unsynced(syncType, ents) ==
    CASE syncType = "rss" -> { e \in Range(ents) : isExternalEntry(e) }
      [] syncType = "external" -> { e \in Range(ents) : ~isExternalEntry(e) }
      [] OTHER -> {}

\* C24: after a partial sync, every entry that was stored for the source type
\* that was not synced is part of the batch handed to handleSyncComplete and
\* is in the entry set the sync stored and in the current one.
C24_PartialSyncKeepsOtherSources ==
    \A e \in Unsynced(input.syncType, input.before) :
        /\ e \in Range(input.allEntries)
        /\ \E x \in Range(input.after) : x.id = e.id /\ x.link = e.link
        /\ \E x \in Range(entries) : x.id = e.id /\ x.link = e.link
        /\ \E x \in Range(stored) : x.id = e.id /\ x.link = e.link

\* an RSS-only sync that fetched one entry kept the two stored Skool posts
C24_Witness ==
    /\ input.syncType = "rss"
    /\ Cardinality(Unsynced("rss", input.before)) = 2
    /\ Len(input.allEntries) = 3
    /\ Len(entries) >= 3

----------------------------------------------------------------------------
(* interestConfig.ts: fetchEnvConfig and its module-level cache.            *)
(* output holds envConfigCache, envConfigPromise, the number of requests    *)
(* sent and what each call resolved to; pc holds each caller's position.    *)

MaxCallers == 3
MaxCallsEach == 2

Callers == 1..MaxCallers

\* JSON bodies /api/config/env can answer with: a config with an override, a
\* config without, and the JSON value null
JsonNull == "null"
ServerData == { "config-interest", "config-plain", JsonNull }

\* { interest: null, predefinedFeeds: null, predefinedExternalSources: null }
EmptyConfig == "config-empty"

NoPromise == [ state |-> "none", value |-> JsonNull ]
Pending == [ state |-> "pending", value |-> JsonNull ]
Settled(v) == [ state |-> "settled", value |-> v ]

\* a guard that looks at the cache only
MustFetchCacheOnly(cache, promise) == cache = JsonNull

\* neither `envConfigCache !== null` nor `envConfigPromise !== null` returned
MustFetch(cache, promise) == cache = JsonNull /\ promise = NoPromise

InitEnv ==
    /\ input = <<>>
    /\ output = [ envConfigCache |-> JsonNull, envConfigPromise |-> NoPromise,
                  requests |-> 0,
                  calls |-> [ c \in Callers |-> 0 ],
                  results |-> [ c \in Callers |-> <<>> ] ]
    /\ pc = [ c \in Callers |-> "idle" ]
    /\ SysInit

\* caller c calls fetchEnvConfig(): the synchronous part up to the return
CallFetchEnvConfig(c) ==
    /\ pc[c] = "idle"
    /\ output.calls[c] < MaxCallsEach
    /\ IF output.envConfigCache # JsonNull
       THEN /\ output' = [output EXCEPT !.calls[c] = @ + 1,
                                        !.results[c] = Append(@, output.envConfigCache)]
            /\ pc' = pc
       ELSE IF ~MustFetch(output.envConfigCache, output.envConfigPromise)
       THEN /\ output' = [output EXCEPT !.calls[c] = @ + 1]
            /\ pc' = [pc EXCEPT ![c] = "awaiting"]
       ELSE /\ output' = [output EXCEPT !.calls[c] = @ + 1,
                                        !.requests = @ + 1,
                                        !.envConfigPromise = Pending]
            /\ pc' = [pc EXCEPT ![c] = "awaiting"]
    /\ UNCHANGED <<input, sysVars>>

\* the response arrived and res.json() gave data: .then(data => ...)
EnvResponse(data) ==
    /\ output.envConfigPromise = Pending
    /\ output' = [output EXCEPT !.envConfigCache = data,
                                !.envConfigPromise = Settled(data)]
    /\ UNCHANGED <<input, pc, sysVars>>

\* fetch or res.json() rejected: .catch(() => ...)
EnvFailure ==
    /\ output.envConfigPromise = Pending
    /\ output' = [output EXCEPT !.envConfigCache = EmptyConfig,
                                !.envConfigPromise = Settled(EmptyConfig)]
    /\ UNCHANGED <<input, pc, sysVars>>

\* the promise caller c was handed has settled: its await continues
EnvResolve(c) ==
    /\ pc[c] = "awaiting"
    /\ output.envConfigPromise.state = "settled"
    /\ output' = [output EXCEPT !.results[c] = Append(@, output.envConfigPromise.value)]
    /\ pc' = [pc EXCEPT ![c] = "idle"]
    /\ UNCHANGED <<input, sysVars>>

NextEnv ==
    \/ \E c \in Callers : CallFetchEnvConfig(c)
    \/ \E data \in ServerData : EnvResponse(data)
    \/ EnvFailure
    \/ \E c \in Callers : EnvResolve(c)

SpecEnv == InitEnv /\ [][NextEnv]_vars

\* C25: at most one request is ever sent; every call that has resolved gave
\* the value the one request settled with; and once the cache is set it is
\* never changed, no further request is sent, and a call made from then on
\* resolves to the cached value.
C25_ConfigInitializedOnce ==
    /\ [](output.requests <= 1)
    /\ [](\A c \in Callers : \A i \in 1..Len(output.results[c]) :
              /\ output.envConfigPromise.state = "settled"
              /\ output.results[c][i] = output.envConfigPromise.value)
    /\ [][output.envConfigCache # JsonNull =>
             /\ output'.envConfigCache = output.envConfigCache
             /\ output'.requests = output.requests
             /\ \A c \in Callers :
                   output'.calls[c] # output.calls[c] =>
                       output'.results[c] = Append(output.results[c], output.envConfigCache)]_vars

\* two callers were waiting on the one request, it failed, and all three
\* callers, one of them calling after the failure, got the empty config
C25_Witness ==
    /\ output.requests = 1
    /\ output.envConfigCache = EmptyConfig
    /\ \A c \in Callers : output.results[c] # <<>> /\ output.results[c][1] = EmptyConfig
    /\ \E c \in Callers : Len(output.results[c]) = 2
    /\ \E c \in Callers : output.calls[c] = 1

----------------------------------------------------------------------------
(* The threader applied to a bucket in which two roots share an article id *)

\* the article of ArticleA under its long link: same /comments/ID, other link
ArticleASlug == <<"reddit.com", "r", "comments", "a", "title">>

SlugLinks == { ArticleA, ArticleASlug, CommentA1, CommentX1, Blog }

InitSlug ==
    /\ \E n \in 0..MaxThreadLen : input \in ThreadBucket(SlugLinks, n)
    /\ output = <<>>
    /\ pc = "ready"
    /\ SysInit

SpecSlug == InitSlug /\ [][NextThread]_vars

\* C26: the threader's output holds every entry of the bucket exactly once
\* and, besides these, exactly one placeholder for each orphan group and no
\* other row.
C26_EachEntryExactlyOnce ==
    pc = "done" =>
        /\ \A i \in 1..Len(input) :
              Cardinality({ p \in 1..Len(output) :
                              ~output[p].isDummyParent /\ output[p].id = input[i].id }) = 1
        /\ \A a \in OrphanIds :
              Cardinality({ p \in 1..Len(output) : IsPlaceholderFor(output[p], a) }) = 1
        /\ Len(output) = Len(input) + Cardinality(OrphanIds)

----------------------------------------------------------------------------
(* Enrichment under overlapping backfill runs *)

\* C27: over every interleaving of sync completions and backfill steps, an
\* entry of the entry list that has enrichment still has enrichment after
\* every step.
C27_EnrichmentNeverLost ==
    [][\A i \in 1..Len(entries) :
          entries[i].og # None =>
              \A j \in 1..Len(entries') :
                  entries'[j].id = entries[i].id => entries'[j].og # None]_vars

----------------------------------------------------------------------------
(* entryState.ts driven by arbitrary calls; input holds, for each id, the *)
(* last call made for it                                                  *)

StatusIds == { LinkP, LinkQ, Blog, ArticleA }

InitStatus ==
    /\ input = [ id \in StatusIds |-> "none" ]
    /\ output = <<>>
    /\ pc = "idle"
    /\ states = [ id \in StatusIds |-> Absent ]
    /\ entries = <<>>
    /\ stored = <<>>
    /\ tagFilters = DEFAULT_TAG_FILTERS
    /\ crossPostDescriptions = {}
    /\ filteredEntries = <<>>
    /\ categorized = EmptyCategorized
    /\ runs = <<>>
    /\ syncCount = 0

CallMarkAsProcessed(entryId) ==
    /\ states' = markAsProcessed(states, entryId)
    /\ input' = [input EXCEPT ![entryId] = "processed"]
    /\ UNCHANGED <<output, pc, entries, stored, tagFilters, crossPostDescriptions,
                   filteredEntries, categorized, runs, syncCount>>

CallMarkAsIgnored(entryId) ==
    /\ states' = markAsIgnored(states, entryId)
    /\ input' = [input EXCEPT ![entryId] = "ignored"]
    /\ UNCHANGED <<output, pc, entries, stored, tagFilters, crossPostDescriptions,
                   filteredEntries, categorized, runs, syncCount>>

CallRestoreEntry(entryId) ==
    /\ states' = restoreEntry(states, entryId)
    /\ input' = [input EXCEPT ![entryId] = "restored"]
    /\ UNCHANGED <<output, pc, entries, stored, tagFilters, crossPostDescriptions,
                   filteredEntries, categorized, runs, syncCount>>

NextStatus ==
    \/ \E entryId \in StatusIds : CallMarkAsProcessed(entryId)
    \/ \E entryId \in StatusIds : CallMarkAsIgnored(entryId)
    \/ \E entryId \in StatusIds : CallRestoreEntry(entryId)

SpecStatus == InitStatus /\ [][NextStatus]_vars

\* C29: getEntryStatus(id) is the status of the last call made for id, and
\* to_process when there was none or it was restoreEntry; the stored map never
\* holds the value to_process; and a call changes the stored value of at most
\* the id it was made for.
C29_StatusIsLastSet ==
    /\ [](\A id \in StatusIds :
              /\ getEntryStatus(states, id) =
                    (IF input[id] \in { "processed", "ignored" } THEN input[id]
                     ELSE "to_process")
              /\ states[id] # "to_process")
    /\ [][\E id \in StatusIds :
             /\ input'[id] # "none"
             /\ \A other \in StatusIds \ { id } :
                   /\ states'[other] = states[other]
                   /\ getEntryStatus(states', other) = getEntryStatus(states, other)]_vars

\* one id was processed, one ignored, one restored after a mark, one untouched
C29_Witness ==
    /\ input[LinkP] = "processed" /\ getEntryStatus(states, LinkP) = "processed"
    /\ input[LinkQ] = "ignored" /\ getEntryStatus(states, LinkQ) = "ignored"
    /\ input[Blog] = "restored" /\ states[Blog] = Absent
    /\ input[ArticleA] = "none"

----------------------------------------------------------------------------
(* rateLimit.ts: checkRateLimit with its in-memory store.  Time is counted  *)
(* in ticks of 30 s: the configured windows and CLEANUP_INTERVAL are 60 s.  *)
(* output holds the store, lastCleanup, the clock and the log of the calls  *)
(* made so far with their results.                                          *)

MaxNow == 4
MaxRateCalls == 4
LimitPerWindow == 2
WindowTicks == 2

CLEANUP_INTERVAL == 2

Identifiers == { "ip1", "ip2" }

\* store.get(key) === undefined
NoEntry == [ count |-> 0, resetTime |-> -1 ]

\* the test for a new window with >= in place of >
WindowExpiredAtReset(entry, now) == entry = NoEntry \/ now >= entry.resetTime

\* !entry || now > entry.resetTime
WindowExpired(entry, now) == entry = NoEntry \/ now > entry.resetTime

\* the store and lastCleanup after cleanup() ran at time now
cleanup(store, lastCleanup, now) ==
    IF now - lastCleanup < CLEANUP_INTERVAL
    THEN [ store |-> store, lastCleanup |-> lastCleanup ]
    ELSE [ store |-> [ key \in Identifiers |->
                         IF store[key] # NoEntry /\ now > store[key].resetTime
                         THEN NoEntry ELSE store[key] ],
           lastCleanup |-> now ]

\* the store after, and the result of, checkRateLimit(identifier, config) on a
\* store that cleanup() has been through
checkRateLimit(store, identifier, now) ==
    LET entry == store[identifier]
    IN  IF WindowExpired(entry, now)
        THEN [ store |-> [store EXCEPT ![identifier] =
                             [ count |-> 1, resetTime |-> now + WindowTicks ]],
               success |-> TRUE, remaining |-> LimitPerWindow - 1 ]
        ELSE IF entry.count >= LimitPerWindow
        THEN [ store |-> store, success |-> FALSE, remaining |-> 0 ]
        ELSE [ store |-> [store EXCEPT ![identifier].count = @ + 1],
               success |-> TRUE, remaining |-> LimitPerWindow - (entry.count + 1) ]

InitRate ==
    /\ input = <<>>
    /\ output = [ store |-> [ key \in Identifiers |-> NoEntry ],
                  lastCleanup |-> 0, now |-> 0, log |-> <<>> ]
    /\ pc = "idle"
    /\ SysInit

\* a request of identifier arrives: checkRateLimit(identifier, config)
CallCheckRateLimit(identifier) ==
    /\ Len(output.log) < MaxRateCalls
    /\ LET cleaned == cleanup(output.store, output.lastCleanup, output.now)
           res == checkRateLimit(cleaned.store, identifier, output.now)
       IN  output' = [ store |-> res.store,
                       lastCleanup |-> cleaned.lastCleanup,
                       now |-> output.now,
                       log |-> Append(output.log,
                                      [ identifier |-> identifier, at |-> output.now,
                                        success |-> res.success,
                                        remaining |-> res.remaining ]) ]
    /\ UNCHANGED <<input, pc, sysVars>>

\* Date.now() moves on
ClockTick ==
    /\ output.now < MaxNow
    /\ output' = [output EXCEPT !.now = @ + 1]
    /\ UNCHANGED <<input, pc, sysVars>>

NextRate ==
    \/ \E identifier \in Identifiers : CallCheckRateLimit(identifier)
    \/ ClockTick

SpecRate == InitRate /\ [][NextRate]_vars

\* the calls logged for one identifier, in order
CallsOf(identifier) == SelectSeq(output.log, LAMBDA c : c.identifier = identifier)

\* the time at which the window that call k of cs falls into was created: the
\* first call creates one, and so does every call later than the resetTime
\* (creation time plus WindowTicks) of the window before it
RECURSIVE WindowOf(_, _)
WindowOf(cs, k) ==
    IF k = 1 THEN cs[1].at
    ELSE LET w == WindowOf(cs, k - 1)
         IN  IF cs[k].at > w + WindowTicks THEN cs[k].at ELSE w

SuccessesBefore(cs, k) ==
    Cardinality({ j \in 1..(k - 1) : WindowOf(cs, j) = WindowOf(cs, k) /\ cs[j].success })

\* the counter of an identifier as far as it counts: nothing once its window is over
LiveEntry(store, identifier, now) ==
    IF WindowExpired(store[identifier], now) THEN NoEntry ELSE store[identifier]

\* C30: for each identifier, at most LimitPerWindow calls succeed between the
\* creation of a window and its resetTime; a call in a window that already has
\* LimitPerWindow successes fails with remaining 0; the first call of an
\* identifier and the first call after the resetTime of its window succeed and
\* leave a window that ends WindowTicks later; and a call leaves the live
\* counter of every other identifier as it was.
C30_WindowLimit ==
    /\ [](\A identifier \in Identifiers :
            LET cs == CallsOf(identifier)
            IN  \A k \in 1..Len(cs) :
                  /\ SuccessesBefore(cs, k) + (IF cs[k].success THEN 1 ELSE 0)
                        <= LimitPerWindow
                  /\ SuccessesBefore(cs, k) >= LimitPerWindow =>
                        ~cs[k].success /\ cs[k].remaining = 0
                  /\ WindowOf(cs, k) = cs[k].at /\ SuccessesBefore(cs, k) = 0 =>
                        cs[k].success
                  /\ (k = Len(cs) /\ output.log[Len(output.log)].identifier = identifier) =>
                        output.store[identifier].resetTime = WindowOf(cs, k) + WindowTicks)
    /\ [][\A identifier \in Identifiers :
             Len(CallsOf(identifier))' # Len(CallsOf(identifier)) =>
                 \A other \in Identifiers \ { identifier } :
                     LiveEntry(output'.store, other, output'.now)
                         = LiveEntry(output.store, other, output.now)]_vars

\* ip1 used up its window and was refused, then succeeded in a new window; the
\* call that opened it also swept the store
C30_Witness ==
    /\ Len(CallsOf("ip1")) = 4
    /\ CallsOf("ip1")[2].success
    /\ ~CallsOf("ip1")[3].success
    /\ CallsOf("ip1")[4].success
    /\ CallsOf("ip1")[4].at > CallsOf("ip1")[1].at + WindowTicks
    /\ output.lastCleanup > 0

====
